---- MODULE Spec2Model ----
(***************************************************************************)
(* Process and session lifecycle of the Telegram/Discord bridge            *)
(* (src/forwarder.py): the pid marker file shared by every start, stop and *)
(* state-query process, and the asyncio event loop inside each controller. *)
(*                                                                         *)
(* Environment assumptions, stated once:                                   *)
(*  - the host is POSIX: the test at line 210 is true and a signal has its *)
(*    POSIX meaning;                                                       *)
(*  - the marker's directory is writable by a controller (open(..., "w")   *)
(*    and os.remove do not fail with OSError);                             *)
(*  - pids are not reused while the model runs;                            *)
(*  - a marker left behind by an earlier run may belong to another user    *)
(*    and then cannot be opened for reading (PermissionError);             *)
(*  - psutil.pid_exists(pid) answers TRUE for a live process, also when    *)
(*    the process belongs to another user (EPERM), and FALSE otherwise: it *)
(*    raises neither ProcessLookupError nor PermissionError;               *)
(*  - a signal reaches a controller while its loop waits in select, not in *)
(*    the middle of a task step;                                           *)
(*  - an awaited disconnect suspends the awaiting task, and a cancelled    *)
(*    task ends with CancelledError at its next step;                      *)
(*  - ProcessStateEnum (bridge.enums) is a string enumeration: RUNNING     *)
(*    equals "running" in the comparison at line 37;                       *)
(*  - the five gathered tasks are tracked as all running, some running or  *)
(*    none running: they differ in nothing the controller reads.           *)
(***************************************************************************)
EXTENDS Integers, Sequences, FiniteSets, TLC

\* Bounds of the model: the processes launched, and the signals that reach
\* the controllers from outside the program.
NProcs == 2
MaxSignals == 2
\* ... and the launches of `--start` followed through controller().
MaxLaunches == 2
\* ... and the chunks a message text is split into.
MaxChunks == 3
\* ... and the messages of the destination channel.
MaxMessages == 2

Procs == 1..NProcs
\* The pid recorded by a marker that an earlier, crashed run left behind.
StalePid == NProcs + 1

VARIABLES
    marker,        \* the pid file: [st, pid, readable]
    foreignAlive,  \* StalePid now denotes a live process of another user
    debug,         \* config.app.debug
    pc,            \* per process: position in controller()/stop_bridge()
    cmd,           \* per process: "none", "start", "stop", "query"
    ret,           \* per process: the result of its determine_process_state
    exitst,        \* per process: why it ended
    rmlog,         \* per process: what its remove_pid_file found
    lp,            \* per controller: its event loop and tasks
    sigs,          \* external signals delivered so far
    boot,          \* the launches followed through controller(boot=True)
    call           \* the call of the Discord handler (core.py) under way

vars == <<marker, foreignAlive, debug, pc, cmd, ret, exitst, rmlog, lp, sigs,
          boot, call>>

\* The processes with their loops, as against the launches of `boot`.
main == <<pc, cmd, ret, exitst, rmlog, lp, sigs>>

\* What no step of the processes of Procs changes: their surroundings, and
\* the launches and the handler calls that are followed apart from them.
env == <<foreignAlive, debug, boot, call>>

----------------------------------------------------------------------------
\* bridge.enums.ProcessStateEnum
STOPPED == "stopped"
RUNNING == "running"
ORPHANED == "orphaned"

Absent == [st |-> "absent", pid |-> 0, readable |-> TRUE]
Empty == [st |-> "empty", pid |-> 0, readable |-> TRUE]
Written(p) == [st |-> "pid", pid |-> p, readable |-> TRUE]
Stale(r) == [st |-> "pid", pid |-> StalePid, readable |-> r]

NoRet == <<"none", 0>>
Raised(e) == <<e, 0>>

\* A process that has been launched and has not ended.
Live(p) == pc[p] \notin {"idle", "exited"}

\* The launches of `--start [--background]` that controller(boot=True) is
\* followed through, one step of 346-378 and 304-324 at a time. A launch
\* starts as the process the shell created and, in background mode,
\* continues in the children that daemonize_process forks.
Launches == 1..MaxLaunches
LauncherPid(l) == StalePid + l
FirstForkedPid == StalePid + MaxLaunches + 1

\*   pc      where the launch stands in controller / daemonize_process /
\*           start_bridge
\*   pid     os.getpid() of the process that carries the launch on
\*   bg      the --background flag
\*   forks   os.fork() calls made so far
\*   gone    exit status of every process of the launch that has ended
\*   st      the state create_pid_file determined
NoLaunch == [pc |-> "idle", pid |-> 0, bg |-> FALSE, forks |-> 0,
             gone |-> <<>>, st |-> "none"]

\*   posix   os.name = "posix"
\*   console config.logger.console
\*   nextpid the pid the next os.fork() gives its child
NoBoot == [posix |-> TRUE, console |-> FALSE, nextpid |-> FirstForkedPid,
           L |-> [l \in Launches |-> NoLaunch]]

\* The pids of launches that are running.
\* No call of the Discord handler is under way.
NoCall == [fn |-> "none"]

BootAlive ==
    {boot.L[l].pid : l \in {k \in Launches :
                                boot.L[k].pc \notin {"idle", "exited"}}}

\* psutil.pid_exists(pid) at line 92.
pid_exists(pid) ==
    IF pid \in Procs THEN Live(pid)
    ELSE IF pid = StalePid THEN foreignAlive
    ELSE pid \in BootAlive

\* os.kill(pid, SIGINT) at line 122: how the call ends. Pid 0 addresses the
\* caller's own process group.
kill_outcome(pid) ==
    IF pid \in Procs THEN (IF Live(pid) THEN "ok" ELSE "ESRCH")
    ELSE IF pid = StalePid THEN (IF foreignAlive THEN "EPERM" ELSE "ESRCH")
    ELSE "group"

\* determine_process_state(pid_file): m is the marker as the call finds it,
\* alive the answer of psutil.pid_exists for the pid it reads.
determine_process_state(m, alive) ==
    IF m.st = "absent" THEN <<STOPPED, 0>>            \* 80-82
    ELSE IF ~m.readable THEN <<RUNNING, 0>>            \* open raises PermissionError with pid = 0: 84-87, 102-105
    ELSE IF m.st = "empty" THEN Raised("ValueError")   \* int("") at 88, not handled
    ELSE IF ~alive THEN <<STOPPED, 0>>                 \* 92-93
    ELSE <<RUNNING, m.pid>>                            \* 97

\* The call as a process makes it now.
Determine == determine_process_state(marker, pid_exists(marker.pid))

\* remove_pid_file missing its FileNotFoundError handler.
remove_pid_file_unhandled(m) ==
    [marker |-> Absent,
     log |-> IF m.st = "absent" THEN "not_found" ELSE "removed",
     raised |-> m.st = "absent"]

\* remove_pid_file (49-57): os.remove deletes the file whatever it records;
\* a missing file is logged (53-54) and nothing is raised.
remove_pid_file(m) ==
    [marker |-> Absent,
     log |-> IF m.st = "absent" THEN "not_found" ELSE "removed",
     raised |-> FALSE]

\* The exit status of a process that ended for the given reason.
ExitCode(reason) ==
    CASE reason \in {"not_running", "signalled", "lookup_error", "queried",
                     "loop_stopped", "interrupted", "detached"} -> "0"
      [] reason \in {"already_running", "login_failure", "value_error",
                     "permission_error", "remove_error", "not_posix",
                     "console_logging"} -> "1"
      [] reason = "keyboard_interrupt" -> "SIGINT"
      [] reason = "killed" -> "SIGTERM"
      [] OTHER -> "none"

----------------------------------------------------------------------------
\* The event loop of a controller and the tasks on it:
\*   m      where the main task stands: tg_start (203), dc_start (203
\*          has returned, 204 is next), gather (237),
\*          os_tg (138) and os_dc (145) in on_shutdown called from
\*          init_clients, fin_tg (342 -> 138) in on_shutdown called from
\*          main, done; failed: ended by an exception that main does not
\*          catch (the loop keeps running)
\*   mc     the main task has a cancellation pending
\*   snap   on_shutdown's all_tasks snapshot (134) holds another task
\*   kids   the gathered tasks still running: "all", "some", "none"
\*   kcr    the running gathered tasks have been cancelled
\*   kerr   a gathered task has ended by raising an exception
\*   d      the start_discord_client task: none, run, creq (cancelled), done
\*   snew   shutdown tasks created by the signal handler, not yet run
\*   swait  shutdown tasks awaiting their gather (173)
\*   stop   loop.stop() has been called
\*   tg, dc telegram_client.is_connected(), discord_client.is_ready()
NoLoop == [m |-> "none", mc |-> FALSE, snap |-> FALSE, kids |-> "none",
           kcr |-> FALSE, kerr |-> FALSE, d |-> "none", snew |-> 0,
           swait |-> 0, stop |-> FALSE, tg |-> FALSE, dc |-> FALSE]

\* start_bridge 265-269: the main task is created and run_forever starts;
\* main awaits init_clients, which awaits start_telegram_client (203).
LoopStarted == [NoLoop EXCEPT !.m = "tg_start"]

\* The signal handlers of 210-213 are installed.
Handlers(L) == L.m \notin {"none", "tg_start", "dc_start", "failed"}

MainInit ==
    /\ \E r \in BOOLEAN, f \in BOOLEAN :
          /\ marker \in {Absent, Stale(r)}
          /\ foreignAlive = (f /\ marker.st = "pid")
    /\ debug \in BOOLEAN
    /\ pc = [p \in Procs |-> "idle"]
    /\ cmd = [p \in Procs |-> "none"]
    /\ ret = [p \in Procs |-> NoRet]
    /\ exitst = [p \in Procs |-> "none"]
    /\ rmlog = [p \in Procs |-> "none"]
    /\ lp = [p \in Procs |-> NoLoop]
    /\ sigs = 0

Init == MainInit /\ boot = NoBoot /\ call = NoCall

\* The system after process p has ended for the given reason: with
\* cleanup, through the finally of start_bridge (282-284), which calls
\* remove_pid_file; without, the marker stays as it is. The loop and its
\* tasks go with the process.
Exit(p, reason, cleanup) ==
    LET r == remove_pid_file(marker)
    IN [marker |-> IF cleanup THEN r.marker ELSE marker,
        pc |-> [pc EXCEPT ![p] = "exited"],
        exitst |-> [exitst EXCEPT ![p] =
                      IF cleanup /\ r.raised THEN "remove_error" ELSE reason],
        rmlog |-> IF cleanup THEN [rmlog EXCEPT ![p] = r.log] ELSE rmlog,
        lp |-> [lp EXCEPT ![p] = NoLoop]]

\* The system as it is.
Same == [marker |-> marker, pc |-> pc, exitst |-> exitst, rmlog |-> rmlog,
         lp |-> lp]

\* What a SIGINT or SIGTERM does to process q. With the handlers of
\* 210-213 installed a shutdown task is created; before that SIGINT raises
\* KeyboardInterrupt in run_forever (270-272, then the finally) and SIGTERM
\* ends the process. A loop that has been stopped no longer runs handlers.
Signalled(q, sig) ==
    IF pc[q] # "loop" \/ lp[q].stop THEN Same
    ELSE IF Handlers(lp[q])
         THEN [Same EXCEPT !.lp = [lp EXCEPT ![q].snew = @ + 1]]
    ELSE IF sig = "SIGINT" THEN Exit(q, "interrupted", TRUE)
    ELSE Exit(q, "killed", FALSE)

\* The next state is the system s with process p ended for the reason.
Becomes(s) ==
    /\ marker' = s.marker
    /\ pc' = s.pc
    /\ exitst' = s.exitst
    /\ rmlog' = s.rmlog
    /\ lp' = s.lp

\* Process p ends where nothing but itself changes.
Ends(p, reason) ==
    /\ pc' = [pc EXCEPT ![p] = "exited"]
    /\ exitst' = [exitst EXCEPT ![p] = reason]

----------------------------------------------------------------------------
\* controller(boot=True) -> start_bridge -> create_pid_file, lines 31-38:
\* the state check. RUNNING exits with status 1 before anything is written.
CreatePidFileCheck(p) ==
    /\ pc[p] = "idle"
    /\ cmd' = [cmd EXCEPT ![p] = "start"]
    /\ ret' = [ret EXCEPT ![p] = Determine]
    /\ IF Determine[1] = RUNNING THEN Ends(p, "already_running")
       ELSE IF Determine[1] = "ValueError" THEN Ends(p, "value_error")
       ELSE /\ pc' = [pc EXCEPT ![p] = "open_w"]
            /\ UNCHANGED exitst
    /\ UNCHANGED <<marker, env, rmlog, lp, sigs>>

\* create_pid_file line 41: open(bot_pid_file, "w") creates or truncates.
CreatePidFileOpen(p) ==
    /\ pc[p] = "open_w"
    /\ marker' = Empty
    /\ pc' = [pc EXCEPT ![p] = "close_w"]
    /\ UNCHANGED <<env, cmd, ret, exitst, rmlog, lp, sigs>>

\* create_pid_file lines 42-46: the pid reaches the file when it is closed;
\* start_bridge goes on to run the loop.
CreatePidFileWrite(p) ==
    /\ pc[p] = "close_w"
    /\ marker' = Written(p)
    /\ pc' = [pc EXCEPT ![p] = "loop"]
    /\ lp' = [lp EXCEPT ![p] = LoopStarted]
    /\ UNCHANGED <<env, cmd, ret, exitst, rmlog, sigs>>

\* stop_bridge lines 113-119: the state check; STOPPED warns and returns.
StopBridgeCheck(p) ==
    /\ pc[p] = "idle"
    /\ cmd' = [cmd EXCEPT ![p] = "stop"]
    /\ ret' = [ret EXCEPT ![p] = Determine]
    /\ IF Determine[1] = STOPPED THEN Ends(p, "not_running")
       ELSE IF Determine[1] = "ValueError" THEN Ends(p, "value_error")
       ELSE /\ pc' = [pc EXCEPT ![p] = "kill"]
            /\ UNCHANGED exitst
    /\ UNCHANGED <<marker, env, rmlog, lp, sigs>>

\* How stop_bridge ends after os.kill: ProcessLookupError is caught and
\* logged (125-127), PermissionError is not caught, and the SIGINT sent to
\* pid 0 comes back to the caller as KeyboardInterrupt.
StopReason(out) ==
    CASE out = "ok" -> "signalled"
      [] out = "ESRCH" -> "lookup_error"
      [] out = "EPERM" -> "permission_error"
      [] OTHER -> "keyboard_interrupt"

\* stop_bridge lines 121-127: os.kill(pid, SIGINT) with the pid the check
\* returned.
StopBridgeKill(p) ==
    /\ pc[p] = "kill"
    /\ LET target == ret[p][2]
           out == kill_outcome(target)
           s == IF out = "ok" THEN Signalled(target, "SIGINT") ELSE Same
       IN Becomes([s EXCEPT !.pc[p] = "exited", !.exitst[p] = StopReason(out)])
    /\ UNCHANGED <<env, cmd, ret, sigs>>

\* A state query (api/routers/webserver.py imports determine_process_state
\* for its health endpoint): the call alone.
QueryState(p) ==
    /\ pc[p] = "idle"
    /\ cmd' = [cmd EXCEPT ![p] = "query"]
    /\ ret' = [ret EXCEPT ![p] = Determine]
    /\ Ends(p, IF Determine[1] = "ValueError" THEN "value_error" ELSE "queried")
    /\ UNCHANGED <<marker, env, rmlog, lp, sigs>>

----------------------------------------------------------------------------
\* Process p runs its event loop: run_forever (269) has not returned.
InLoop(p) == pc[p] = "loop" /\ ~lp[p].stop

\* asyncio.all_tasks() holds a task other than the main task.
OtherTasks(L) ==
    L.kids # "none" \/ L.d \in {"run", "creq"} \/ L.snew + L.swait > 0

\* The main task leaves the gather of 237 through 240-250 and calls
\* on_shutdown: 133-138, up to the await of telegram_client.disconnect().
EnterShutdown(L) == [L EXCEPT !.m = "os_tg", !.snap = OtherTasks(L)]

\* asyncio.gather(..., return_exceptions=config.app.debug) is resolved by a
\* child that ends: by the first failure or cancellation when debug is off,
\* else by the last child.
GatherEnds(failed, left) == (~debug /\ failed) \/ left = "none"

\* One of the five gathered tasks ends, leaving `left` of them running. The
\* main task's gather (237) and a shutdown task's gather (173) both see it.
ChildEnded(L, failed, left) ==
    LET L1 == [L EXCEPT !.kids = left,
                        !.kcr = IF left = "none" THEN FALSE ELSE @,
                        !.swait = IF ~debug /\ failed THEN 0 ELSE @]
    IN IF L.m = "gather" /\ GatherEnds(failed, left)
       THEN EnterShutdown(L1) ELSE L1

\* What may remain when one of the running gathered tasks ends.
Left(kids) == IF kids = "all" THEN {"some"} ELSE {"some", "none"}

\* start_telegram_client (bridge.telegram_handler): the connect of the
\* Telegram session is a suspension point of the call, which returns the
\* client once the session is connected.
ConnectedOnReturn == TRUE

\* init_clients 203: the await of start_telegram_client ends and returns
\* the client.
TelegramStarted(p) ==
    /\ InLoop(p) /\ lp[p].m = "tg_start"
    /\ lp' = [lp EXCEPT ![p] = [@ EXCEPT !.m = "dc_start",
                                          !.tg = ConnectedOnReturn]]
    /\ UNCHANGED <<marker, env, pc, cmd, ret, exitst, rmlog, sigs>>

\* init_clients 204-237: start_discord schedules start_discord_client
\* (core.py 48-50), which begins the Discord connect; the signal handlers
\* are installed (210-213), the five tasks are created (217-235) and the
\* main task awaits their gather.
DiscordStarts(p) ==
    /\ InLoop(p) /\ lp[p].m = "dc_start"
    /\ lp' = [lp EXCEPT ![p] = [@ EXCEPT !.m = "gather", !.d = "run",
                                          !.kids = "all"]]
    /\ UNCHANGED <<marker, env, pc, cmd, ret, exitst, rmlog, sigs>>

\* How a session's connect reports that authentication failed: the error
\* propagates to the caller.
AuthenticationFailure == "raised"

\* init_clients 203 and main 327-343: start_telegram_client fails
\* authentication. The await of 203 stands outside the try of 215, main
\* catches KeyboardInterrupt and CancelledError only, and its finally finds
\* clients empty: the main task ends with the exception and nothing stops
\* the loop.
TelegramStartFails(p) ==
    /\ InLoop(p) /\ lp[p].m = "tg_start"
    /\ AuthenticationFailure = "raised"
    /\ lp' = [lp EXCEPT ![p].m = "failed"]
    /\ UNCHANGED <<marker, env, pc, cmd, ret, exitst, rmlog, sigs>>

\* A gathered task returns.
KidReturns(p) ==
    /\ InLoop(p) /\ lp[p].kids # "none"
    /\ \E left \in Left(lp[p].kids) :
          lp' = [lp EXCEPT ![p] = ChildEnded(@, FALSE, left)]
    /\ UNCHANGED <<marker, env, pc, cmd, ret, exitst, rmlog, sigs>>

\* A gathered task raises an exception.
KidRaises(p) ==
    /\ InLoop(p) /\ lp[p].kids # "none"
    /\ \E left \in Left(lp[p].kids) :
          lp' = [lp EXCEPT ![p] = [ChildEnded(@, TRUE, left)
                                     EXCEPT !.kerr = TRUE]]
    /\ UNCHANGED <<marker, env, pc, cmd, ret, exitst, rmlog, sigs>>

\* A gathered task that was cancelled ends with CancelledError.
KidCancelled(p) ==
    /\ InLoop(p) /\ lp[p].kids # "none" /\ lp[p].kcr
    /\ \E left \in Left(lp[p].kids) :
          lp' = [lp EXCEPT ![p] = ChildEnded(@, TRUE, left)]
    /\ UNCHANGED <<marker, env, pc, cmd, ret, exitst, rmlog, sigs>>

\* start_discord_client (core.py 26-36): discord_client.start logs in and
\* the client becomes ready; the task keeps running the session.
DiscordReady(p) ==
    /\ InLoop(p) /\ lp[p].d = "run" /\ ~lp[p].dc
    /\ lp' = [lp EXCEPT ![p].dc = TRUE]
    /\ UNCHANGED <<marker, env, pc, cmd, ret, exitst, rmlog, sigs>>

\* core.py 38-41: LoginFailure or TypeError -> sys.exit(1) inside the task.
\* SystemExit leaves run_forever; start_bridge's finally runs (282-284).
DiscordLoginFailure(p) ==
    /\ InLoop(p) /\ lp[p].d = "run" /\ ~lp[p].dc
    /\ Becomes(Exit(p, "login_failure", TRUE))
    /\ UNCHANGED <<env, cmd, ret, sigs>>

\* core.py 42-44: HTTPException is logged and the task ends.
DiscordHTTPException(p) ==
    /\ InLoop(p) /\ lp[p].d = "run" /\ ~lp[p].dc
    /\ lp' = [lp EXCEPT ![p].d = "done"]
    /\ UNCHANGED <<marker, env, pc, cmd, ret, exitst, rmlog, sigs>>

\* The cancelled start_discord_client task ends with CancelledError, which
\* none of its handlers catches; a shutdown task's gather sees it.
DiscordCancelled(p) ==
    /\ InLoop(p) /\ lp[p].d = "creq"
    /\ lp' = [lp EXCEPT ![p] = [@ EXCEPT !.d = "done",
                                          !.swait = IF ~debug THEN 0 ELSE @]]
    /\ UNCHANGED <<marker, env, pc, cmd, ret, exitst, rmlog, sigs>>

\* on_shutdown with the handler of 140 missing: a failed or cancelled
\* Telegram disconnect leaves on_shutdown, init_clients and main.
DisconnectEndsUncaught(L, ok) ==
    IF L.mc \/ ~ok THEN [L EXCEPT !.mc = FALSE, !.m = "done"]
    ELSE [L EXCEPT !.m = "os_dc", !.tg = FALSE]

\* on_shutdown 136-145: the main task after its await of
\* telegram_client.disconnect() has ended. A pending cancellation is
\* delivered there as CancelledError; otherwise the call returns (ok) or
\* raises. The handler of 140 catches both failures and the task goes on
\* to await discord_client.close().
DisconnectEnds(L, ok) ==
    IF L.mc THEN [L EXCEPT !.mc = FALSE, !.m = "os_dc"]
    ELSE [L EXCEPT !.m = "os_dc", !.tg = IF ok THEN FALSE ELSE @]

\* on_shutdown 136-141: the await of telegram_client.disconnect() ends:
\* with the CancelledError of a pending cancellation, normally, or with an
\* exception. All three are caught and on_shutdown goes on to 143-145.
TelegramDisconnect(p) ==
    /\ InLoop(p) /\ lp[p].m = "os_tg"
    /\ \E ok \in BOOLEAN : lp' = [lp EXCEPT ![p] = DisconnectEnds(@, ok)]
    /\ UNCHANGED <<marker, env, pc, cmd, ret, exitst, rmlog, sigs>>

\* on_shutdown 150-154: for every other task in the snapshot the loop
\* cancels `task`, the current task, not `running_task`.
SelfCancel(L) == L.snap

\* A loop that never gets loop.stop().
StopLoopMissing(L) == L

\* on_shutdown 156-157: asyncio.get_event_loop().stop().
StopLoop(L) == [L EXCEPT !.stop = TRUE]

\* main 336-343 after init_clients has returned the clients: nothing left
\* to do when both sessions are down, else on_shutdown is awaited again.
MainFinally(L) == IF ~L.tg /\ ~L.dc THEN "done" ELSE "fin_tg"

\* on_shutdown 143-158 and the return through init_clients 252 into main:
\* the await of discord_client.close() ends (cancelled, normally, or with
\* an exception), the task cancels itself, stops the loop, and main's
\* finally runs up to its next suspension.
DiscordClose(p) ==
    /\ InLoop(p) /\ lp[p].m = "os_dc"
    /\ \E ok \in BOOLEAN :
          LET L == lp[p]
              closed == ~L.mc /\ ok
              L1 == [L EXCEPT !.dc = IF closed THEN FALSE ELSE @,
                              !.d = IF closed /\ @ \in {"run", "creq"}
                                    THEN "done" ELSE @]
              L2 == StopLoop([L1 EXCEPT !.mc = SelfCancel(L1)])
          IN lp' = [lp EXCEPT ![p] = [L2 EXCEPT !.m = MainFinally(L2)]]
    /\ UNCHANGED <<marker, env, pc, cmd, ret, exitst, rmlog, sigs>>

\* shutdown 166-173: a shutdown task cancels every task but itself: the
\* gathered tasks, start_discord_client, every other shutdown task, started
\* or not, and the main task wherever it stands; then it awaits them. A
\* main task inside on_shutdown gets the cancellation at the await it is
\* in; one that awaits the gather of 237 passes the cancellation on to the
\* gathered tasks and resumes when that gather resolves.
ShutdownCancels(L) ==
    LET L1 == [L EXCEPT !.snew = 0, !.swait = 1,
                        !.kcr = (L.kids # "none"),
                        !.d = IF @ = "run" THEN "creq" ELSE @]
    IN IF L.m \in {"os_tg", "os_dc"} THEN [L1 EXCEPT !.mc = TRUE] ELSE L1

\* The first step of a shutdown task created by the signal handler.
ShutdownTaskStep(p) ==
    /\ InLoop(p) /\ lp[p].snew > 0
    /\ lp' = [lp EXCEPT ![p] = ShutdownCancels(@)]
    /\ UNCHANGED <<marker, env, pc, cmd, ret, exitst, rmlog, sigs>>

\* A SIGINT or SIGTERM from outside the program reaches controller p.
ExternalSignal(p, sig) ==
    /\ InLoop(p) /\ sigs < MaxSignals
    /\ sigs' = sigs + 1
    /\ Becomes(Signalled(p, sig))
    /\ UNCHANGED <<env, cmd, ret>>

\* start_bridge 269-284: run_forever returns after loop.stop(); the
\* finally removes the marker and the process ends.
LoopStops(p) ==
    /\ pc[p] = "loop" /\ lp[p].stop
    /\ Becomes(Exit(p, "loop_stopped", TRUE))
    /\ UNCHANGED <<env, cmd, ret, sigs>>

----------------------------------------------------------------------------
Marker(p) ==
    \/ CreatePidFileCheck(p)
    \/ CreatePidFileOpen(p)
    \/ CreatePidFileWrite(p)
    \/ StopBridgeCheck(p)
    \/ StopBridgeKill(p)
    \/ QueryState(p)

Loop(p) ==
    \/ TelegramStarted(p)
    \/ DiscordStarts(p)
    \/ TelegramStartFails(p)
    \/ KidReturns(p)
    \/ KidRaises(p)
    \/ KidCancelled(p)
    \/ DiscordReady(p)
    \/ DiscordLoginFailure(p)
    \/ DiscordHTTPException(p)
    \/ DiscordCancelled(p)
    \/ TelegramDisconnect(p)
    \/ DiscordClose(p)
    \/ ShutdownTaskStep(p)
    \/ LoopStops(p)

Signals(p) == \E sig \in {"SIGINT", "SIGTERM"} : ExternalSignal(p, sig)

Next == \E p \in Procs : Marker(p) \/ Loop(p) \/ Signals(p)

Spec == Init /\ [][Next]_vars

----------------------------------------------------------------------------
\* Scheduling: the event loop runs every task that is ready, an awaited
\* disconnect completes (normally, with an error, or cancelled), and
\* run_forever returns once the loop has been stopped.
\* A cancelled gathered task ends with CancelledError at its next step.
\* Nothing else is assumed about the gathered tasks, the Discord session
\* or the signals.
Fairness ==
    \A p \in Procs :
        /\ WF_vars(ShutdownTaskStep(p))
        /\ WF_vars(KidCancelled(p))
        /\ WF_vars(TelegramDisconnect(p))
        /\ WF_vars(DiscordClose(p))
        /\ WF_vars(LoopStops(p))

FairSpec == Init /\ [][Next]_vars /\ Fairness

\* A shutdown trigger has just fired in controller p: the signal handler
\* has created a shutdown task, or init_clients has left its gather.
Triggered(p) ==
    pc[p] = "loop" /\ ~lp[p].stop /\ (lp[p].snew > 0 \/ lp[p].m = "os_tg")

\* Controller p has ended through the finally of start_bridge.
Released(p) == pc[p] = "exited" /\ rmlog[p] # "none"

----------------------------------------------------------------------------
\* controller(boot=True, ...) followed launch by launch: the background
\* gate, daemonize_process, create_pid_file, and the run of the bridge as
\* one step (its loop is the subject of Loop above).

\* The gate with the console test left out.
background_gate_posix_only(bg, posix, console) ==
    IF bg /\ ~posix THEN "not_posix" ELSE "ok"

\* controller 357-367: the two tests that guard background mode, in the
\* order of the code.
background_gate(bg, posix, console) ==
    IF ~bg THEN "ok"
    ELSE IF ~posix THEN "not_posix"
    ELSE IF console THEN "console_logging"
    ELSE "ok"

BootInit ==
    /\ MainInit
    /\ \E posix \in BOOLEAN, console \in BOOLEAN :
          boot = [NoBoot EXCEPT !.posix = posix, !.console = console]
    /\ call = NoCall

\* The launch ends: the process that carries it exits for the reason.
LaunchEnds(r, reason) ==
    [r EXCEPT !.pc = "exited", !.gone = Append(@, reason)]

\* controller 346-370: a `--start` launch, with or without --background.
\* A failed gate is sys.exit(1) at 362 or 367.
ControllerBoot(l) ==
    /\ boot.L[l].pc = "idle"
    /\ \E bg \in BOOLEAN :
          LET r == [boot.L[l] EXCEPT !.bg = bg, !.pid = LauncherPid(l)]
              gate == background_gate(bg, boot.posix, boot.console)
          IN boot' = [boot EXCEPT !.L[l] =
                        IF gate # "ok" THEN LaunchEnds(r, gate)
                        ELSE [r EXCEPT !.pc = IF bg THEN "fork1"
                                              ELSE "create"]]
    /\ UNCHANGED <<marker, foreignAlive, debug, main, call>>

\* os.fork() followed by sys.exit() in the parent (307-309, 315-317): the
\* launch goes on in the child, under a new pid.
Forked(b, l, next) ==
    [b EXCEPT !.nextpid = @ + 1,
              !.L[l] = [@ EXCEPT !.pid = b.nextpid, !.forks = @ + 1,
                                 !.gone = Append(@, "detached"),
                                 !.pc = next]]

\* daemonize_process 307-309: the first fork.
DaemonizeFirstFork(l) ==
    /\ boot.L[l].pc = "fork1"
    /\ boot' = Forked(boot, l, "setsid")
    /\ UNCHANGED <<marker, foreignAlive, debug, main, call>>

\* daemonize_process 312: os.setsid().
DaemonizeSetsid(l) ==
    /\ boot.L[l].pc = "setsid"
    /\ boot' = [boot EXCEPT !.L[l].pc = "fork2"]
    /\ UNCHANGED <<marker, foreignAlive, debug, main, call>>

\* daemonize_process 315-317: the second fork.
DaemonizeSecondFork(l) ==
    /\ boot.L[l].pc = "fork2"
    /\ boot' = Forked(boot, l, "redirect")
    /\ UNCHANGED <<marker, foreignAlive, debug, main, call>>

\* daemonize_process 320-324: the standard descriptors go to /dev/null;
\* controller 372-374 then calls start_bridge.
DaemonizeRedirect(l) ==
    /\ boot.L[l].pc = "redirect"
    /\ boot' = [boot EXCEPT !.L[l].pc = "create"]
    /\ UNCHANGED <<marker, foreignAlive, debug, main, call>>

\* create_pid_file 31-38 in the process that carries the launch.
BootCreatePidFileCheck(l) ==
    /\ boot.L[l].pc = "create"
    /\ LET r == [boot.L[l] EXCEPT !.st = Determine[1]]
       IN boot' = [boot EXCEPT !.L[l] =
                     IF Determine[1] = RUNNING
                     THEN LaunchEnds(r, "already_running")
                     ELSE IF Determine[1] = "ValueError"
                     THEN LaunchEnds(r, "value_error")
                     ELSE [r EXCEPT !.pc = "open_w"]]
    /\ UNCHANGED <<marker, foreignAlive, debug, main, call>>

\* create_pid_file 41.
BootCreatePidFileOpen(l) ==
    /\ boot.L[l].pc = "open_w"
    /\ marker' = Empty
    /\ boot' = [boot EXCEPT !.L[l].pc = "close_w"]
    /\ UNCHANGED <<foreignAlive, debug, main, call>>

\* create_pid_file 31, 42-46: str(os.getpid()) reaches the file; the
\* sessions start.
BootCreatePidFileWrite(l) ==
    /\ boot.L[l].pc = "close_w"
    /\ marker' = Written(boot.L[l].pid)
    /\ boot' = [boot EXCEPT !.L[l].pc = "sessions"]
    /\ UNCHANGED <<foreignAlive, debug, main, call>>

\* start_bridge 267-284: the loop runs and ends; the finally removes the
\* marker.
BootBridgeEnds(l) ==
    /\ boot.L[l].pc = "sessions"
    /\ marker' = remove_pid_file(marker).marker
    /\ boot' = [boot EXCEPT !.L[l] = LaunchEnds(@, "loop_stopped")]
    /\ UNCHANGED <<foreignAlive, debug, main, call>>

BootNext ==
    \E l \in Launches :
        \/ ControllerBoot(l)
        \/ DaemonizeFirstFork(l)
        \/ DaemonizeSetsid(l)
        \/ DaemonizeSecondFork(l)
        \/ DaemonizeRedirect(l)
        \/ BootCreatePidFileCheck(l)
        \/ BootCreatePidFileOpen(l)
        \/ BootCreatePidFileWrite(l)
        \/ BootBridgeEnds(l)

BootSpec == BootInit /\ [][BootNext]_vars

----------------------------------------------------------------------------
\* The Discord handler (src/bridge/discord_handler/core.py), one call at a
\* time. A chunk is named by its position in the split text, from 0; the
\* receipt of a send is the chunk it delivered.

None == "None"
Chunks(n) == [i \in 1..n |-> i - 1]

\* How discord_channel.send ends in forward_to_discord: the two errors the
\* function handles (131, 134).
SendOutcomes == {"ok", "Forbidden", "HTTPException"}

\* forward_to_discord 114-118: the arguments, and message_parts as
\* split_message returned it.
ForwardCalls ==
    {[fn |-> "forward_to_discord", pc |-> IF img THEN "file" ELSE "loop",
      n |-> n, message_parts |-> Chunks(n), i |-> 1,
      image_file |-> img, reference |-> ref,
      sends |-> <<>>, sent_messages |-> <<>>] :
        n \in 1..MaxChunks, img \in BOOLEAN, ref \in {None, "ref"}}

\* discord_channel.send is called (122-124, 129): the send is under way
\* and the task waits for it.
Begun(c, part, file) ==
    [c EXCEPT !.sends = Append(@, [part |-> part, file |-> file,
                                   reference |-> c.reference,
                                   outcome |-> "pending"])]

\* The awaited send ends: its receipt is appended (125, 130), or the except
\* clause (131-136) ends the try.
Ended(c, outcome) ==
    [c EXCEPT !.sends[Len(c.sends)].outcome = outcome,
              !.sent_messages = IF outcome = "ok"
                                THEN Append(@, c.sends[Len(c.sends)].part)
                                ELSE @,
              !.pc = IF outcome = "ok" THEN "loop" ELSE "returned"]

\* The list after line 126 when the pop is left out.
NotPopped(message_parts) == message_parts

\* forward_to_discord 126: message_parts.pop(0).
Popped(message_parts) == Tail(message_parts)

\* forward_to_discord 120-124: the send with the attachment begins.
ForwardSendWithFile ==
    /\ call.fn = "forward_to_discord" /\ call.pc = "file"
    /\ call' = [Begun(call, call.message_parts[1], TRUE)
                  EXCEPT !.pc = "await_file"]
    /\ UNCHANGED <<marker, foreignAlive, debug, main, boot>>

\* forward_to_discord 121: discord.File(image_file) cannot open the file.
\* The error is neither discord.Forbidden nor discord.HTTPException: it
\* leaves the function.
ForwardFileFails ==
    /\ call.fn = "forward_to_discord" /\ call.pc = "file"
    /\ call' = [call EXCEPT !.pc = "raised"]
    /\ UNCHANGED <<marker, foreignAlive, debug, main, boot>>

\* forward_to_discord 122-126: the send with the attachment ends.
ForwardFileSendEnds ==
    /\ call.fn = "forward_to_discord" /\ call.pc = "await_file"
    /\ \E outcome \in SendOutcomes :
          call' = IF outcome = "ok"
                  THEN [Ended(call, outcome)
                          EXCEPT !.message_parts = Popped(@)]
                  ELSE Ended(call, outcome)
    /\ UNCHANGED <<marker, foreignAlive, debug, main, boot>>

\* forward_to_discord 128-129: one turn of the loop begins its send.
ForwardSendPart ==
    /\ call.fn = "forward_to_discord" /\ call.pc = "loop"
    /\ call.i <= Len(call.message_parts)
    /\ call' = [Begun(call, call.message_parts[call.i], FALSE)
                  EXCEPT !.pc = "await"]
    /\ UNCHANGED <<marker, foreignAlive, debug, main, boot>>

\* forward_to_discord 129-136: the send of the turn ends.
ForwardSendEnds ==
    /\ call.fn = "forward_to_discord" /\ call.pc = "await"
    /\ \E outcome \in SendOutcomes :
          call' = [Ended(call, outcome) EXCEPT !.i = @ + 1]
    /\ UNCHANGED <<marker, foreignAlive, debug, main, boot>>

\* forward_to_discord 128, 138: the loop is exhausted.
ForwardReturns ==
    /\ call.fn = "forward_to_discord" /\ call.pc = "loop"
    /\ call.i > Len(call.message_parts)
    /\ call' = [call EXCEPT !.pc = "returned"]
    /\ UNCHANGED <<marker, foreignAlive, debug, main, boot>>

\* forward_embed_to_discord 56-112. The files it downloads are named by
\* their role: "thumbnail" (64), "author" (65, 86), "media" (96); `disk` is
\* the set of them that stand in local storage, `paths` what each download
\* returned, `files` the list the finally clause walks.

\* How an awaited call or a constructor ends inside the try (106 catches
\* every Exception).
EmbedOutcomes == {"ok", "raises"}
\* download_profile_photo / download_media: a path, None when there is
\* nothing to download, or an error.
DownloadOutcomes == {"ok", "none", "raises"}

EmbedCalls ==
    {[fn |-> "forward_embed_to_discord",
      pc |-> IF fwd THEN "dl_thumbnail" ELSE "dl_author",
      forward |-> fwd, media |-> media,
      n |-> n, message_parts |-> Chunks(n), i |-> 1, j |-> 1,
      paths |-> [f \in {"thumbnail", "author", "media"} |-> "unset"],
      disk |-> {}, files |-> <<>>,
      sends |-> <<>>, sent_messages |-> <<>>] :
        fwd \in BOOLEAN, media \in BOOLEAN, n \in 1..MaxChunks}

InEmbed(pcs) == call.fn = "forward_embed_to_discord" /\ call.pc \in pcs

\* The statement that follows the avatar files (95) and the media (102).
AfterFiles(c) == IF c.media THEN "dl_media" ELSE "send"

\* 106-109: the except clause returns sent_messages; the finally runs.
EmbedExcept(c) == [c EXCEPT !.pc = "finally"]

\* 64, 65, 86, 96: one download.
EmbedDownload ==
    /\ InEmbed({"dl_thumbnail", "dl_author", "dl_media"})
    /\ LET f == CASE call.pc = "dl_thumbnail" -> "thumbnail"
                  [] call.pc = "dl_author" -> "author"
                  [] call.pc = "dl_media" -> "media"
           next == CASE call.pc = "dl_thumbnail" -> "dl_author"
                     [] call.pc = "dl_author" -> "file_author"
                     [] call.pc = "dl_media" -> "file_media"
       IN \E outcome \in DownloadOutcomes :
             call' = CASE outcome = "ok" ->
                            [call EXCEPT !.disk = @ \cup {f},
                                         !.paths[f] = f, !.pc = next]
                       [] outcome = "none" ->
                            [call EXCEPT !.paths[f] = None, !.pc = next]
                       [] outcome = "raises" -> EmbedExcept(call)
    /\ UNCHANGED <<marker, foreignAlive, debug, main, boot>>

\* discord.File(str(path)) opens the file: it fails on str(None), and it
\* can fail on a file that is there.
FileOutcomes(c, f) ==
    IF c.paths[f] = f /\ f \in c.disk THEN EmbedOutcomes ELSE {"raises"}

\* 75-78, 92-93, 97-98: a File is built; the files reach the list once the
\* Files of the branch are all built.
EmbedFile ==
    /\ InEmbed({"file_author", "file_thumbnail", "file_media"})
    /\ LET f == CASE call.pc = "file_author" -> "author"
                  [] call.pc = "file_thumbnail" -> "thumbnail"
                  [] call.pc = "file_media" -> "media"
           appended ==
               CASE call.pc = "file_author" ->
                        IF call.forward THEN <<>> ELSE <<"author">>
                 [] call.pc = "file_thumbnail" -> <<"author", "thumbnail">>
                 [] call.pc = "file_media" -> <<"media">>
           next == CASE call.pc = "file_author" ->
                            IF call.forward THEN "file_thumbnail"
                            ELSE AfterFiles(call)
                     [] call.pc = "file_thumbnail" -> AfterFiles(call)
                     [] call.pc = "file_media" -> "inspect"
       IN \E outcome \in FileOutcomes(call, f) :
             call' = IF outcome = "ok"
                     THEN [call EXCEPT !.files = @ \o appended, !.pc = next]
                     ELSE EmbedExcept(call)
    /\ UNCHANGED <<marker, foreignAlive, debug, main, boot>>

\* 99-100: event.message.media.document.mime_type is read.
EmbedInspect ==
    /\ InEmbed({"inspect"})
    /\ \E outcome \in EmbedOutcomes :
          call' = IF outcome = "ok" THEN [call EXCEPT !.pc = "send"]
                  ELSE EmbedExcept(call)
    /\ UNCHANGED <<marker, foreignAlive, debug, main, boot>>

\* 102-105: one turn of the loop: the chunk becomes the description of the
\* embed, and the embed goes out with the files.
EmbedSend ==
    /\ InEmbed({"send"}) /\ call.i <= Len(call.message_parts)
    /\ \E outcome \in EmbedOutcomes :
          LET part == call.message_parts[call.i]
              c == [call EXCEPT
                      !.sends = Append(@, [embed |-> TRUE,
                                           description |-> part,
                                           content |-> None,
                                           files |-> call.files,
                                           outcome |-> outcome])]
          IN call' = IF outcome = "ok"
                     THEN [c EXCEPT !.sent_messages = Append(@, part),
                                    !.i = @ + 1]
                     ELSE EmbedExcept(c)
    /\ UNCHANGED <<marker, foreignAlive, debug, main, boot>>

\* 102, 109: the loop is exhausted; the finally runs.
EmbedSendsDone ==
    /\ InEmbed({"send"}) /\ call.i > Len(call.message_parts)
    /\ call' = [call EXCEPT !.pc = "finally"]
    /\ UNCHANGED <<marker, foreignAlive, debug, main, boot>>

\* 110-111: os.remove of one file of the list; an error leaves the
\* function through the finally.
EmbedRemove ==
    /\ InEmbed({"finally"}) /\ call.j <= Len(call.files)
    /\ \E outcome \in EmbedOutcomes :
          call' = IF outcome = "ok"
                  THEN [call EXCEPT !.disk = @ \ {call.files[call.j]},
                                    !.j = @ + 1]
                  ELSE [call EXCEPT !.pc = "raised"]
    /\ UNCHANGED <<marker, foreignAlive, debug, main, boot>>

\* 108, 112: return sent_messages.
EmbedReturns ==
    /\ InEmbed({"finally"}) /\ call.j > Len(call.files)
    /\ call' = [call EXCEPT !.pc = "returned"]
    /\ UNCHANGED <<marker, foreignAlive, debug, main, boot>>

\* fetch_discord_reference 141-169. `links` is what the history manager
\* has recorded for (forwarder_name, reply_to_msg_id): the id of a
\* destination message, or nothing; `channel` is the set of message ids the
\* destination channel holds.

DestMessages == 1..MaxMessages
\* The value that is false at line 146 (None; no message has the id 0), and
\* the None the function returns for "no reference".
NoId == 0

\* history_manager.get_discord_message_id (bridge.history): the recorded
\* link, None on a miss.
get_discord_message_id(links) == links

\* How the history fetch of 153-155 ends.
HistoryOutcomes == {"ok", "NotFound", "Forbidden", "HTTPException"}

ReferenceCalls ==
    {[fn |-> "fetch_discord_reference", pc |-> "lookup",
      links |-> l, channel |-> ch, discord_message_id |-> "unset",
      history |-> "unset", ret |-> "unset"] :
        l \in {NoId} \cup DestMessages, ch \in SUBSET DestMessages}

\* 143-149.
ReferenceLookup ==
    /\ call.fn = "fetch_discord_reference" /\ call.pc = "lookup"
    /\ LET id == get_discord_message_id(call.links)
       IN call' = IF id = NoId
                  THEN [call EXCEPT !.discord_message_id = id,
                                    !.pc = "returned", !.ret = NoId]
                  ELSE [call EXCEPT !.discord_message_id = id,
                                    !.pc = "history"]
    /\ UNCHANGED <<marker, foreignAlive, debug, main, boot>>

\* 151-169: the messages around the id are fetched (the channel holds fewer
\* than the limit of 10) and searched; discord.NotFound is the one error
\* handled.
ReferenceHistory ==
    /\ call.fn = "fetch_discord_reference" /\ call.pc = "history"
    /\ \E outcome \in HistoryOutcomes :
          LET c == [call EXCEPT !.history = outcome]
              messages == call.channel
          IN call' =
               CASE outcome = "ok" ->
                      [c EXCEPT !.pc = "returned",
                                !.ret = IF call.discord_message_id \in messages
                                        THEN call.discord_message_id
                                        ELSE NoId]
                 [] outcome = "NotFound" ->
                      [c EXCEPT !.pc = "returned", !.ret = NoId]
                 [] OTHER -> [c EXCEPT !.pc = "raised"]
    /\ UNCHANGED <<marker, foreignAlive, debug, main, boot>>

\* get_mention_roles 172-191 and is_builtin_mention 194-196. Names are
\* strings; str.lower() is tabulated over the names used.

lower(name) ==
    CASE name = "News" -> "news"
      [] name = "Here" -> "here"
      [] name = "Admin" -> "admin"
      [] OTHER -> name

\* 194-196.
is_builtin_mention(role_name, discord_built_in_roles) ==
    lower(role_name) \in discord_built_in_roles

\* discord.Role.mention.
RoleMention(role) == "<@&" \o role.id \o ">"

\* discord.utils.get(server_roles, name=role_name): the first role of that
\* name, as a set of one role at most.
utils_get(server_roles, role_name) ==
    LET hits == {k \in DOMAIN server_roles : server_roles[k].name = role_name}
    IN {server_roles[k] : k \in {h \in hits : \A g \in hits : h <= g}}

\* 183-189: what one role name of an override adds to mention_roles.
mention_of(role_name, discord_built_in_roles, server_roles) ==
    IF is_builtin_mention(role_name, discord_built_in_roles)
    THEN {"@" \o role_name}
    ELSE {RoleMention(role) : role \in utils_get(server_roles, role_name)}

Range(seq) == {seq[k] : k \in DOMAIN seq}

\* 172-191; the list returned is list(set), given here as the set.
get_mention_roles(message_forward_hashtags, mention_override, discord_built_in_roles, server_roles) ==
    UNION {UNION {mention_of(role_name, discord_built_in_roles, server_roles) :
                    role_name \in Range(mention_override[lower(tag)])} :
             tag \in {t \in Range(message_forward_hashtags) :
                         lower(t) \in DOMAIN mention_override}}

\* The arguments get_mention_roles is called with: the keys of the override
\* table and the built-in list are in lower case.
MentionCalls ==
    {[fn |-> "get_mention_roles", pc |-> "called",
      message_forward_hashtags |-> tags,
      mention_override |-> [key \in {"news"} |-> targets],
      discord_built_in_roles |-> builtins,
      server_roles |-> roles, ret |-> "unset"] :
        tags \in {<<>>, <<"news">>, <<"News">>, <<"other">>,
                  <<"news", "News">>},
        targets \in {<<"here">>, <<"Here">>, <<"@here">>, <<"admin">>,
                     <<"Admin">>, <<"here", "admin">>, <<"here", "here">>},
        builtins \in {{"here", "everyone"}, {"@here", "@everyone"}},
        roles \in {<<>>, <<[name |-> "admin", id |-> "1"]>>,
                   <<[name |-> "admin", id |-> "1"],
                     [name |-> "Admin", id |-> "2"]>>}}

\* 172-191 as one step: the function awaits nothing.
MentionRoles ==
    /\ call.fn = "get_mention_roles" /\ call.pc = "called"
    /\ call' = [call EXCEPT
                  !.pc = "returned",
                  !.ret = get_mention_roles(call.message_forward_hashtags,
                                            call.mention_override,
                                            call.discord_built_in_roles,
                                            call.server_roles)]
    /\ UNCHANGED <<marker, foreignAlive, debug, main, boot>>

\* One call of the handler, from its arguments to its end.
HandlerInit ==
    /\ MainInit /\ marker = Absent /\ debug = FALSE
    /\ boot = NoBoot
    /\ call \in ForwardCalls \cup EmbedCalls \cup ReferenceCalls
                  \cup MentionCalls

HandlerNext ==
    \/ ForwardSendWithFile
    \/ ForwardFileFails
    \/ ForwardFileSendEnds
    \/ ForwardSendPart
    \/ ForwardSendEnds
    \/ ForwardReturns
    \/ EmbedDownload
    \/ EmbedFile
    \/ EmbedInspect
    \/ EmbedSend
    \/ EmbedSendsDone
    \/ EmbedRemove
    \/ EmbedReturns
    \/ ReferenceLookup
    \/ ReferenceHistory
    \/ MentionRoles

HandlerSpec == HandlerInit /\ [][HandlerNext]_vars

----------------------------------------------------------------------------
\* Vocabulary of the properties below.

\* Process p makes its determine_process_state call in this step.
Determines(p) == pc[p] = "idle" /\ pc'[p] # "idle"

\* Controller p ends in this step, after it has written the marker.
ControllerEnds(p) == pc[p] = "loop" /\ pc'[p] = "exited"

\* Controller p is the one that touches the marker file in this step.
Mutates(p) ==
    /\ cmd[p] = "start"
    /\ pc[p] \in {"open_w", "close_w", "loop"}
    /\ pc'[p] # pc[p]

\* The answers that "a function of marker existence and liveness of the
\* recorded pid" allows.
StateTable(exists, alive, pid) ==
    IF ~exists THEN <<STOPPED, 0>>
    ELSE IF alive THEN <<RUNNING, pid>>
    ELSE <<STOPPED, 0>>

\* The determination made now meets a permission-denied outcome: the marker
\* cannot be read, or the recorded pid belongs to a live process of another
\* user.
PermissionDenied ==
    /\ marker.st = "pid"
    /\ \/ ~marker.readable
       \/ marker.pid = StalePid /\ foreignAlive

----------------------------------------------------------------------------
\* C1 -- Single instance: however two or more starts interleave on the same
\* marker, at most one process is past create_pid_file and running the
\* loop; a start that did not get there ended with exit status 1.
C1_SingleInstance ==
    /\ Cardinality({p \in Procs : pc[p] = "loop"}) <= 1
    /\ \A p \in Procs :
          cmd[p] = "start" /\ pc[p] = "exited" /\ rmlog[p] = "none"
          /\ exitst[p] # "killed" => ExitCode(exitst[p]) = "1"

\* C2 -- determine_process_state is a function of marker existence and
\* liveness of the recorded pid only: absent gives (STOPPED, 0), present
\* and alive gives (RUNNING, recorded pid), present and gone gives
\* (STOPPED, 0), in every call any process makes.
C2_FunctionOfExistenceAndLiveness ==
    [][\A p \in Procs :
          Determines(p) =>
             ret'[p] = StateTable(marker.st # "absent",
                                  pid_exists(marker.pid), marker.pid)]_vars

\* C3 -- Whenever the determination meets a permission-denied outcome,
\* reading the marker or probing the pid, the result is RUNNING together
\* with the pid the marker records.
C3_PermissionDeniedIsRunning ==
    [][\A p \in Procs :
          Determines(p) /\ PermissionDenied =>
             ret'[p] = <<RUNNING, marker.pid>>]_vars

\* C4 -- Once a controller has written the marker, the marker file is
\* absent when that controller has ended, whatever ended it.
C4_MarkerRemovedOnExit ==
    [][\A p \in Procs : ControllerEnds(p) => marker'.st = "absent"]_vars

\* C5 -- Marker ownership: every change of the marker file is made by a
\* controller, never while the file records another live controller's pid;
\* stop, state query and a start that aborts as already running leave it
\* unchanged.
C5_MarkerOwnership ==
    [][/\ marker' # marker =>
             \E p \in Procs :
                /\ Mutates(p)
                /\ marker.st = "pid" /\ marker.pid \in Procs \ {p}
                      => ~Live(marker.pid)
       /\ \A p \in Procs :
             /\ Determines(p)
             /\ cmd'[p] \in {"stop", "query"} \/ exitst'[p] = "already_running"
             => marker' = marker]_vars

\* C6 -- Stale marker recovery: when the marker records the pid of a
\* process that is not running, a start's determination is (STOPPED, 0),
\* its create_pid_file goes on to write, and the marker then holds exactly
\* the starting process's pid.
C6_StaleMarkerRecovery ==
    [][\A p \in Procs :
          /\ Determines(p) /\ cmd'[p] = "start"
             /\ marker.st = "pid" /\ ~pid_exists(marker.pid)
             => ret'[p] = <<STOPPED, 0>> /\ pc'[p] = "open_w"
          /\ pc[p] = "close_w" /\ pc'[p] = "loop" => marker' = Written(p)]_vars

\* C7 -- Release idempotence: remove_pid_file on an already-removed marker
\* raises nothing and leaves the marker absent, a second release changes
\* nothing, and a create_pid_file that finds the marker released goes on to
\* write the caller's own pid.
C7_ReleaseIdempotent ==
    [][/\ LET once == remove_pid_file(marker)
              twice == remove_pid_file(once.marker)
          IN twice.marker = once.marker /\ ~twice.raised
       /\ \A p \in Procs :
             /\ ControllerEnds(p) /\ rmlog'[p] = "not_found"
                => marker'.st = "absent" /\ exitst'[p] # "remove_error"
             /\ Determines(p) /\ cmd'[p] = "start" /\ marker.st = "absent"
                => pc'[p] = "open_w"
             /\ pc[p] = "close_w" /\ pc'[p] = "loop"
                => marker' = Written(p)]_vars

\* A controller has released a marker that another one had already
\* removed, and ended normally.
C7_Witness ==
    \E p \in Procs, q \in Procs :
        /\ p # q
        /\ rmlog[q] = "removed"
        /\ rmlog[p] = "not_found" /\ ExitCode(exitst[p]) = "0"
        /\ marker.st = "absent"

\* C8 -- Stop request: stop_bridge goes on to signal exactly when the
\* state is RUNNING, the signal goes to the recorded pid and never to
\* pid 0, STOPPED sends nothing and returns, and a target that vanished
\* before the signal does not make stop_bridge fail.
C8_StopRequest ==
    [][\A p \in Procs :
          /\ Determines(p) /\ cmd'[p] = "stop"
             => /\ pc'[p] = "kill" <=> ret'[p][1] = RUNNING
                /\ ret'[p][1] = STOPPED
                      => exitst'[p] = "not_running" /\ lp' = lp
                /\ ret'[p][1] = RUNNING => ret'[p][2] = marker.pid
          /\ pc[p] = "kill" /\ pc'[p] = "exited"
             => /\ ret[p][2] # 0
                /\ kill_outcome(ret[p][2]) = "ESRCH"
                      => ExitCode(exitst'[p]) = "0"]_vars

\* C9 -- Termination: after a shutdown trigger in a running controller,
\* under fair scheduling the loop is stopped and start_bridge reaches
\* marker removal, whether the disconnects succeed, raise or are
\* cancelled, and for both values of debug.
C9_Termination == \A p \in Procs : Triggered(p) ~> Released(p)

\* A controller whose loop was stopped by on_shutdown has removed the
\* marker and ended.
C9_Witness ==
    \E p \in Procs :
        exitst[p] = "loop_stopped" /\ rmlog[p] = "removed" /\ ~Live(p)

\* C10 -- Shutdown idempotence: with a shutdown in progress, a further
\* trigger does not cancel the main task inside on_shutdown, the marker is
\* removed once, and the controller ends without a crash.
C10_ShutdownIdempotent ==
    [][\A p \in Procs :
          /\ pc[p] = "loop" /\ pc'[p] = "loop"
             /\ lp[p].m \in {"os_tg", "os_dc"} /\ lp'[p].m = lp[p].m
             => lp'[p].mc = lp[p].mc
          /\ rmlog[p] # "none" => rmlog'[p] = rmlog[p]
          /\ pc[p] = "loop" /\ lp[p].stop /\ pc'[p] = "exited"
             => ExitCode(exitst'[p]) = "0"]_vars

\* C11 -- Independent disconnects: in on_shutdown the Discord close is
\* awaited whatever the Telegram disconnect did (returned, raised, was
\* cancelled), and whatever the two disconnects did on_shutdown runs to its
\* end, stops the loop and returns to its caller.
C11_IndependentDisconnects ==
    [][\A p \in Procs :
          pc[p] = "loop" /\ pc'[p] = "loop" =>
             /\ lp[p].m = "os_tg" /\ lp'[p].m # "os_tg"
                => lp'[p].m = "os_dc"
             /\ lp[p].m = "os_dc" /\ lp'[p].m # "os_dc"
                => lp'[p].stop /\ lp'[p].m \in {"done", "fin_tg"}]_vars

\* on_shutdown has run to its end although neither session went down:
\* both disconnects failed or were cancelled.
C11_Witness ==
    \E p \in Procs :
        pc[p] = "loop" /\ lp[p].stop /\ lp[p].tg /\ lp[p].dc

\* C12 -- Fatal authentication failure: a controller whose Discord or
\* Telegram connect failed authentication has ended with exit status 1; it
\* is never left running after the failure.
C12_FatalAuthenticationFailure ==
    \A p \in Procs :
        /\ pc[p] = "loop" => lp[p].m # "failed"
        /\ exitst[p] = "login_failure"
              => pc[p] = "exited" /\ ExitCode(exitst[p]) = "1"

\* C13 -- Background gating and ordering: a background launch on a host
\* that is not POSIX, or with console logging on, exits with status 1
\* having forked nothing and written no marker; otherwise daemonize_process
\* has run exactly once (two forks) when create_pid_file starts, nothing
\* forks after that, and the marker written records the pid of the
\* detached process, which is the one that runs the sessions.
C13_BackgroundGating ==
    [][\A l \in Launches :
          LET r == boot.L[l]
              n == boot'.L[l]
          IN /\ r.pc = "idle" /\ n.pc # "idle" /\ n.bg
                /\ (~boot.posix \/ boot.console)
                => /\ n.pc = "exited" /\ n.forks = 0 /\ marker' = marker
                   /\ ExitCode(n.gone[Len(n.gone)]) = "1"
             /\ r.pc # "create" /\ n.pc = "create"
                => n.forks = (IF n.bg THEN 2 ELSE 0)
             /\ r.pc \in {"create", "open_w", "close_w", "sessions"}
                => n.forks = r.forks /\ n.pid = r.pid
             /\ r.pc = "close_w" /\ n.pc = "sessions"
                => /\ marker' = Written(n.pid)
                   /\ n.bg => /\ n.pid >= FirstForkedPid
                              /\ n.gone = <<"detached", "detached">>]_vars

\* A background launch runs its sessions as the detached process, and the
\* marker records that process's pid.
C13_Witness ==
    \E l \in Launches :
        /\ boot.L[l].bg /\ boot.L[l].pc = "sessions"
        /\ boot.L[l].forks = 2
        /\ marker = Written(boot.L[l].pid)

\* C14 -- Reply target on the first chunk only: when forward_to_discord is
\* given a reply reference and the text has two chunks or more, the send of
\* chunk 0 carries the reference and the sends of the later chunks carry no
\* reply target, with and without an attachment.
C14_ReplyOnFirstChunkOnly ==
    call.fn = "forward_to_discord" /\ call.reference # None /\ call.n >= 2
    => \A k \in DOMAIN call.sends :
          call.sends[k].reference =
              IF call.sends[k].part = 0 THEN call.reference ELSE None

\* C15 -- Chunk failure does not abort the event: when forward_to_discord
\* has returned, a send was attempted for every chunk, whatever the sends
\* before it did, and the returned list holds exactly the receipts of the
\* sends that succeeded.
C15_ChunkFailureDoesNotAbort ==
    call.fn = "forward_to_discord" /\ call.pc = "returned"
    => /\ \A part \in 0..(call.n - 1) :
             \E k \in DOMAIN call.sends : call.sends[k].part = part
       /\ {call.sent_messages[k] : k \in DOMAIN call.sent_messages}
              = {call.sends[k].part :
                     k \in {j \in DOMAIN call.sends :
                                call.sends[j].outcome = "ok"}}

\* C16 -- Cleanup guarantee: when forward_embed_to_discord returns or
\* raises, no file that was downloaded to local storage during the call is
\* left there, wherever the call failed.
C16_CleanupGuarantee ==
    call.fn = "forward_embed_to_discord" /\ call.pc \in {"returned", "raised"}
    => call.disk = {}

\* C17 -- Provenance send emitted once: when forward_embed_to_discord has
\* delivered the n chunks of a forwarded post, exactly one of its sends
\* carried the embed and the files, that send carried chunk 0, and the sends
\* of chunks 1..n-1 carried neither embed nor files.
C17_ProvenanceSendOnce ==
    /\ call.fn = "forward_embed_to_discord" /\ call.forward
    /\ call.pc = "returned" /\ Len(call.sent_messages) = call.n
    => /\ Cardinality({k \in DOMAIN call.sends : call.sends[k].embed}) = 1
       /\ \A k \in DOMAIN call.sends :
             LET chunk == IF call.sends[k].embed
                          THEN call.sends[k].description
                          ELSE call.sends[k].content
             IN IF call.sends[k].embed
                THEN chunk = 0 /\ call.sends[k].files # <<>>
                ELSE chunk # 0 /\ call.sends[k].files = <<>>

\* The mention the claim of C18 gives a target name: the built-in mention
\* of the built-in name it matches without regard to case ("@here" for the
\* built-in "@here" as for the built-in "here"), else the mention of the
\* server role of exactly that name, else nothing.
C18_BuiltinMention(builtin) ==
    IF builtin \in {"@here", "@everyone"} THEN builtin ELSE "@" \o builtin

C18_Mentions(role_name, builtins, roles) ==
    LET matched == {b \in builtins : lower(b) = lower(role_name)}
    IN IF matched # {}
       THEN {C18_BuiltinMention(b) : b \in matched}
       ELSE {RoleMention(roles[k]) :
                k \in {j \in DOMAIN roles : roles[j].name = role_name}}

\* C18 -- Mention resolution: get_mention_roles returns exactly the set of
\* mentions of the target names of every tag that matches an override key
\* without regard to case, a name that matches a built-in name without
\* regard to case giving the built-in mention of that name, any other name
\* the mention of the server role of exactly that name, and a name with no
\* such role giving nothing.
C18_MentionResolution ==
    call.fn = "get_mention_roles" /\ call.pc = "returned"
    => call.ret =
         UNION {UNION {C18_Mentions(role_name, call.discord_built_in_roles,
                                    call.server_roles) :
                         role_name \in Range(call.mention_override[key])} :
                  key \in {k \in DOMAIN call.mention_override :
                             \E tag \in Range(call.message_forward_hashtags) :
                                lower(tag) = lower(k)}}

\* C19 -- Best-effort reply resolution: fetch_discord_reference ends by
\* returning, never by raising, and what it returns is the reference to
\* message d exactly when the link to d is recorded and d was found in the
\* destination channel, and no reference in every other case.
C19_BestEffortReference ==
    call.fn = "fetch_discord_reference" /\ call.pc \in {"returned", "raised"}
    => /\ call.pc = "returned"
       /\ call.ret = IF /\ call.links # NoId
                        /\ call.history = "ok"
                        /\ call.links \in call.channel
                     THEN call.links
                     ELSE NoId

\* The tasks of a loop other than the one that runs the shutdown sequence
\* have all been told to cancel: the gathered tasks, start_discord_client,
\* and the shutdown tasks not yet started.
C20_OthersCancelled(L) ==
    /\ L.kids # "none" => L.kcr
    /\ L.d # "run"
    /\ L.snew = 0

\* C20 -- Shutdown cancellation scope: when on_shutdown reaches its
\* cancelling loop, and when a shutdown task started by a signal takes its
\* first step, every other outstanding task is cancelled and the task that
\* runs the sequence is not.
C20_ShutdownCancellationScope ==
    [][\A p \in Procs :
          pc[p] = "loop" /\ pc'[p] = "loop" =>
             /\ lp[p].m = "os_dc" /\ lp'[p].m # "os_dc"
                => ~lp'[p].mc /\ C20_OthersCancelled(lp'[p])
             /\ lp[p].snew > 0 /\ lp'[p].snew = 0
                => /\ C20_OthersCancelled(lp'[p])
                   /\ lp'[p].swait = 1
                   /\ lp[p].m \in {"os_tg", "os_dc"} => lp'[p].mc]_vars

\* One of the gathered tasks of controller p has raised.
C21_UnitFailed(p) == pc[p] = "loop" /\ lp[p].kerr

\* The main task of controller p is in on_shutdown or past it.
C21_InShutdown(p) ==
    pc[p] = "loop" /\ lp[p].m \in {"os_tg", "os_dc", "fin_tg", "done"}

\* C21 -- Supervised-unit failure triggers shutdown: once one of the five
\* gathered tasks has raised, the controller eventually enters on_shutdown,
\* for both values of debug.
C21_UnitFailureTriggersShutdown ==
    \A p \in Procs : C21_UnitFailed(p) ~> C21_InShutdown(p)

\* C22 -- Ordered one-send-per-chunk delivery: in forward_to_discord a
\* send begins only when every send before it has ended, the sends carry
\* the chunks in order, the attachment goes with the first send only, and a
\* call in which no send failed ends with exactly n sends and with the
\* receipts of chunks 0..n-1 in that order.
C22_OrderedDelivery ==
    call.fn = "forward_to_discord"
    => /\ \A k \in DOMAIN call.sends :
             /\ k < Len(call.sends) => call.sends[k].outcome # "pending"
             /\ call.sends[k].part = k - 1
             /\ call.sends[k].file = (call.image_file /\ k = 1)
       /\ /\ call.pc = "returned"
          /\ \A k \in DOMAIN call.sends : call.sends[k].outcome = "ok"
          => /\ Len(call.sends) = call.n
             /\ call.sent_messages = Chunks(call.n)

\* A text of two chunks or more with an attachment has been delivered in
\* full.
C22_Witness ==
    /\ call.fn = "forward_to_discord" /\ call.pc = "returned"
    /\ call.image_file /\ call.n >= 2
    /\ Len(call.sends) = call.n
    /\ \A k \in DOMAIN call.sends : call.sends[k].outcome = "ok"

\* The chunks of the sends of the call that succeeded, in send order.
C23_Delivered ==
    LET Ok(send) == send.outcome = "ok"
        oks == SelectSeq(call.sends, Ok)
    IN [k \in 1..Len(oks) |->
          IF call.fn = "forward_to_discord" THEN oks[k].part
          ELSE oks[k].description]

\* C23 -- Error containment in the forwarding engine: whatever send,
\* download, File construction or file removal fails inside
\* forward_to_discord or forward_embed_to_discord, the call ends by
\* returning, with the receipts produced so far in send order; it never
\* ends by raising.
C23_ErrorContainment ==
    /\ call.fn \in {"forward_to_discord", "forward_embed_to_discord"}
    /\ call.pc \in {"returned", "raised"}
    => /\ call.pc = "returned"
       /\ call.sent_messages = C23_Delivered

\* C24 -- Concurrent session start: in init_clients the Discord connect
\* attempt does not wait for the Telegram connect: while the Telegram
\* connect is still under way, the step that begins the Discord attempt can
\* be taken.
C24_ConcurrentSessionStart ==
    \A p \in Procs :
        InLoop(p) /\ lp[p].m = "tg_start" => ENABLED DiscordStarts(p)

====
